---- MODULE Spec2Model ----
(***************************************************************************)
(* dirstamp (src/src/main.rs): set each directory's mtime to match its     *)
(* newest immediate child.  Priority: newest file; if no files, newest     *)
(* immediate subdirectory.  Empty directories are left unchanged.          *)
(*                                                                         *)
(* The model is one invocation of main() (Spec), or two invocations in     *)
(* immediate succession on the same tree (SessionSpec).  Time is in whole  *)
(* seconds; paths are sequences of components.                             *)
(***************************************************************************)
EXTENDS Integers, Sequences, FiniteSets, TLC

\* ------------------------------------------------------------------ bounds

\* mtimes range over 0..MaxTime seconds
MaxTime == 3

\* at most MaxArgs command-line arguments are supplied
MaxArgs == 2

\* ------------------------------------------------------- program constants

\* let one_sec = Duration::from_secs(1);
one_sec == 1

\* ------------------------------------------------------------- file system

\* The root of the traversal ("." when no PATH is given, else PATH); every
\* other path is root.join(name), one component longer than its parent.
RootPath == <<"root">>

\* The candidate entries of the tree, in the order read_dir lists siblings.
PathList == << <<"root">>, <<"root", "a">>, <<"root", "b">>, <<"root", "a", "c">> >>

Paths == {PathList[k] : k \in 1..Len(PathList)}

Parent(p) == SubSeq(p, 1, Len(p) - 1)

Kinds == {"none", "file", "dir"}

Absent == [kind |-> "none", mtime |-> 0]

Entries == {Absent} \cup [kind : {"file", "dir"}, mtime : 0..MaxTime]

\* An entry exists only inside a directory.
WellFormed(f) ==
    \A p \in Paths \ {RootPath} : f[p].kind # "none" => f[Parent(p)].kind = "dir"

Trees == {f \in [Paths -> Entries] : WellFormed(f)}

\* At most one entry of the tree answers one system call with an error.
NoFault == [path |-> <<>>, kind |-> "none"]

FaultKinds == {"metadata", "modified", "read_dir", "set_mtime"}

Faults(f) ==
    {NoFault} \cup
    {x \in [path : Paths, kind : FaultKinds] :
        /\ f[x.path].kind # "none"
        /\ x.kind \in {"read_dir", "set_mtime"} => f[x.path].kind = "dir"}

\* --------------------------------------------------------------- arguments

Arg(d, n) == [dashes |-> d, name |-> n]

ArgTokens ==
    { Arg(1, "h"), Arg(2, "help"), Arg(1, "V"), Arg(2, "version"),
      Arg(1, "C"), Arg(2, "confirm"), Arg(1, "D"), Arg(2, "show-dates"),
      Arg(2, "bogus"), Arg(0, "root") }

VARIABLES
    fs,             \* the tree on disk
    fault,          \* the entry and system call that fail, or NoFault
    pc,             \* position in main(): args, root, walk, loop, done, exit
    argc,           \* arguments taken from env::args() so far
    confirm,
    show_dates,
    path_arg,       \* <<>> for None, <<arg>> for Some(arg)
    dirs,
    idx,            \* position of the for loop in dirs
    updated_count,
    out,            \* lines printed to stdout
    err,            \* lines printed to stderr
    exit_code,      \* -1 while running
    fs0,            \* history: the tree when this invocation started
    flagC,          \* history: -C or --confirm was among the arguments read
    decided,        \* history: (path, dir_mtime, latest) of each directory that reached the tolerance test
    stamped,        \* history: the calls of set_folder_mtime
    prev            \* history: the previous invocation, or NoPrev

vars == << fs, fault, pc, argc, confirm, show_dates, path_arg, dirs, idx,
           updated_count, out, err, exit_code, fs0, flagC, decided, stamped, prev >>

NoPrev == [ran |-> FALSE]

\* ------------------------------------------------------------ system calls

None == [tag |-> "None"]

Some(t) == [tag |-> "Some", t |-> t]

IoErr == [tag |-> "Err"]

Fails(flt, p, call) == flt = [path |-> p, kind |-> call]

\* fs::metadata(p) / entry.metadata(): the entry's type and times
MetadataOk(f, flt, p) == f[p].kind # "none" /\ ~Fails(flt, p, "metadata")

\* meta.modified()
ModifiedOk(flt, p) == ~Fails(flt, p, "modified")

\* fs::read_dir(p): the existing immediate children of p
ReadDirOk(f, flt, p) == f[p].kind = "dir" /\ ~Fails(flt, p, "read_dir")

IsChild(f, p, q) == Len(q) = Len(p) + 1 /\ Parent(q) = p /\ f[q].kind # "none"

ReadDir(f, p) == SelectSeq(PathList, LAMBDA q : IsChild(f, p, q))

\* Path::exists(): false when the metadata cannot be read
PathExists(f, flt, p) == MetadataOk(f, flt, p)

Reverse(s) == [k \in 1..Len(s) |-> s[Len(s) + 1 - k]]

Front(s) == SubSeq(s, 1, Len(s) - 1)

Last(s) == s[Len(s)]

MaxOf(a, b) == IF a >= b THEN a ELSE b

\* ------------------------------------------------------------ the program

\* a slip in the match arms: -D / --show-dates also sets confirm
ArgMatchDatesConfirm(arg) ==
    IF arg \in {Arg(1, "h"), Arg(2, "help")} THEN "help"
    ELSE IF arg \in {Arg(1, "V"), Arg(2, "version")} THEN "version"
    ELSE IF arg \in {Arg(1, "C"), Arg(2, "confirm"), Arg(1, "D"), Arg(2, "show-dates")} THEN "confirm"
    ELSE IF arg.dashes >= 1 THEN "unknown"
    ELSE "path"

\* match arg.as_str() { ... }
ArgMatch(arg) ==
    IF arg \in {Arg(1, "h"), Arg(2, "help")} THEN "help"
    ELSE IF arg \in {Arg(1, "V"), Arg(2, "version")} THEN "version"
    ELSE IF arg \in {Arg(1, "C"), Arg(2, "confirm")} THEN "confirm"
    ELSE IF arg \in {Arg(1, "D"), Arg(2, "show-dates")} THEN "show_dates"
    ELSE IF arg.dashes >= 1 THEN "unknown"
    ELSE "path"

is_dir(entry) == entry.is_dir

depth_of(path) == Len(path)

\* Some(match newest { Some(curr) => curr.max(modified), None => modified })
Newest(newest, modified) ==
    IF newest.tag = "Some" THEN Some(MaxOf(newest.t, modified)) ELSE Some(modified)

\* a slip: the subdirectories are preferred to the files
ResolveDirFirst(newest_file, newest_dir) ==
    IF newest_dir.tag = "Some" THEN newest_dir ELSE newest_file

\* a slip: a directory without children gets the epoch instead of None
ResolveOrEpoch(newest_file, newest_dir) ==
    IF newest_file.tag = "Some" THEN newest_file
    ELSE IF newest_dir.tag = "Some" THEN newest_dir
    ELSE Some(0)

\* Ok(newest_file.or(newest_dir))
Resolve(newest_file, newest_dir) ==
    IF newest_file.tag = "Some" THEN newest_file ELSE newest_dir

\* the for loop of find_latest_mtime over the entries read_dir lists
RECURSIVE ScanEntries(_, _, _, _, _)
ScanEntries(f, flt, items, newest_file, newest_dir) ==
    IF items = <<>>
    THEN Resolve(newest_file, newest_dir)
    ELSE LET entry == Head(items)
             rest == Tail(items)
         IN  IF ~MetadataOk(f, flt, entry) THEN IoErr
             ELSE IF ~ModifiedOk(flt, entry)
                  THEN ScanEntries(f, flt, rest, newest_file, newest_dir)
             ELSE IF f[entry].kind = "file"
                  THEN ScanEntries(f, flt, rest, Newest(newest_file, f[entry].mtime), newest_dir)
             ELSE IF f[entry].kind = "dir"
                  THEN ScanEntries(f, flt, rest, newest_file, Newest(newest_dir, f[entry].mtime))
             ELSE ScanEntries(f, flt, rest, newest_file, newest_dir)

find_latest_mtime(f, flt, path) ==
    IF ~ReadDirOk(f, flt, path) THEN IoErr
    ELSE ScanEntries(f, flt, ReadDir(f, path), None, None)

\* a slip: the access time is set, the mtime is left as it was
set_folder_atime(f, path, mtime) == f

\* set_file_mtime(path, ft): the tree with path's mtime replaced
set_folder_mtime(f, path, mtime) == [f EXCEPT ![path].mtime = mtime]

SetMtimeOk(flt, path) == ~Fails(flt, path, "set_mtime")

\* WalkDir::new(&root).follow_links(true): the root, then each directory's
\* entries before its next sibling; a directory that cannot be listed is
\* yielded and followed by an error. rev: the order read_dir lists siblings.
RECURSIVE WalkDir(_, _, _, _)
WalkDir(f, flt, stack, rev) ==
    IF stack = <<>> THEN <<>>
    ELSE LET p == Head(stack)
             item == [ok |-> TRUE, path |-> p, is_dir |-> f[p].kind = "dir"]
             list == IF rev THEN Reverse(ReadDir(f, p)) ELSE ReadDir(f, p)
         IN  IF f[p].kind # "dir" THEN <<item>> \o WalkDir(f, flt, Tail(stack), rev)
             ELSE IF ReadDirOk(f, flt, p)
                  THEN <<item>> \o WalkDir(f, flt, list \o Tail(stack), rev)
             ELSE <<item, [ok |-> FALSE, path |-> p, is_dir |-> FALSE]>>
                      \o WalkDir(f, flt, Tail(stack), rev)

\* a slip: Reverse is left out, so parents come before their children
SortKeyShallowFirst(path) == Len(path)

\* |e| Reverse(depth_of(&e.path()))
SortKey(path) == 0 - depth_of(path)

\* Vec::sort_by_key: a stable sort, ascending in the key
RECURSIVE Insert(_, _)
Insert(x, s) ==
    IF s = <<>> THEN <<x>>
    ELSE IF SortKey(Last(s)) <= SortKey(x) THEN Append(s, x)
    ELSE Append(Insert(x, Front(s)), Last(s))

RECURSIVE sort_by_key(_)
sort_by_key(s) == IF s = <<>> THEN <<>> ELSE Insert(Last(s), sort_by_key(Front(s)))

\* a slip: a difference of exactly one second counts as a change
needs_change_inclusive(latest, dir_mtime) ==
    latest >= dir_mtime + one_sec \/ latest + one_sec <= dir_mtime

\* let needs_change = latest > dir_mtime + one_sec || latest + one_sec < dir_mtime;
needs_change(latest, dir_mtime) ==
    latest > dir_mtime + one_sec \/ latest + one_sec < dir_mtime

Line(text, path, dates) == [text |-> text, path |-> path, dates |-> dates]

\* (from_s, to_s, days): both times to the second, and the signed difference
maybe_dates(shw, dir_mtime, latest) ==
    IF shw THEN <<dir_mtime, latest, latest - dir_mtime>> ELSE <<>>

Outcome(f, o, e, n, d, s) ==
    [fs |-> f, out |-> o, err |-> e, inc |-> n, decided |-> d, stamped |-> s]

\* a slip: updated_count is incremented before the write is tried
ApplyOrReportCountsFirst(f, flt, path, dir_mtime, latest, cfm, shw) ==
    LET dates == maybe_dates(shw, dir_mtime, latest)
        d == <<[path |-> path, dir_mtime |-> dir_mtime, latest |-> latest]>>
        call == <<[path |-> path, mtime |-> latest]>>
    IN  IF cfm
        THEN IF ~SetMtimeOk(flt, path)
             THEN Outcome(f, <<>>, <<Line("skipped (set mtime failed)", path, <<>>)>>, 1, d, call)
             ELSE Outcome(set_folder_mtime(f, path, latest),
                          <<Line("updated", path, dates)>>, <<>>, 1, d, call)
        ELSE Outcome(f, <<Line("would update", path, dates)>>, <<>>, 1, d, <<>>)

\* if confirm { set_folder_mtime ... "updated" } else { "would update" }; updated_count += 1
ApplyOrReport(f, flt, path, dir_mtime, latest, cfm, shw) ==
    LET dates == maybe_dates(shw, dir_mtime, latest)
        d == <<[path |-> path, dir_mtime |-> dir_mtime, latest |-> latest]>>
        call == <<[path |-> path, mtime |-> latest]>>
    IN  IF cfm
        THEN IF ~SetMtimeOk(flt, path)
             THEN Outcome(f, <<>>, <<Line("skipped (set mtime failed)", path, <<>>)>>, 0, d, call)
             ELSE Outcome(set_folder_mtime(f, path, latest),
                          <<Line("updated", path, dates)>>, <<>>, 1, d, call)
        ELSE Outcome(f, <<Line("would update", path, dates)>>, <<>>, 1, d, <<>>)

\* the body of `for entry in dirs`
LoopBody(f, flt, path, cfm, shw) ==
    LET dir_mtime == f[path].mtime
        latest == find_latest_mtime(f, flt, path)
    IN  IF ~(MetadataOk(f, flt, path) /\ ModifiedOk(flt, path))
        THEN Outcome(f, <<>>, <<Line("skipped (mtime read failed)", path, <<>>)>>, 0, <<>>, <<>>)
        ELSE IF latest.tag = "Err"
        THEN Outcome(f, <<>>, <<Line("skipped (child scan failed)", path, <<>>)>>, 0, <<>>, <<>>)
        ELSE IF latest.tag = "None"
        THEN Outcome(f, <<>>, <<>>, 0, <<>>, <<>>)
        ELSE IF ~needs_change(latest.t, dir_mtime)
        THEN Outcome(f, <<>>, <<>>, 0,
                     <<[path |-> path, dir_mtime |-> dir_mtime, latest |-> latest.t]>>, <<>>)
        ELSE ApplyOrReport(f, flt, path, dir_mtime, latest.t, cfm, shw)

\* ------------------------------------------------------------------ actions

EndOfArgs == Arg(0, "")

Running ==
    /\ pc = "args" /\ argc = 0 /\ confirm = FALSE /\ show_dates = FALSE
    /\ path_arg = <<>> /\ dirs = <<>> /\ idx = 1 /\ updated_count = 0
    /\ out = <<>> /\ err = <<>> /\ exit_code = -1
    /\ flagC = FALSE /\ decided = <<>> /\ stamped = <<>>

Init ==
    /\ fs \in Trees
    /\ fault \in Faults(fs)
    /\ fs0 = fs
    /\ prev = NoPrev
    /\ Running

\* one turn of `while let Some(arg) = args.next()`
ParseArg ==
    /\ pc = "args"
    /\ \E a \in ArgTokens \cup {EndOfArgs} :
        LET m == IF a = EndOfArgs THEN "end" ELSE ArgMatch(a)
            next == IF m \in {"help", "version", "unknown"} THEN "exit"
                    ELSE IF m \in {"path", "end"} THEN "root"
                    ELSE "args"
        IN  /\ a # EndOfArgs => argc < MaxArgs
            /\ confirm' = (confirm \/ m = "confirm")
            /\ show_dates' = (show_dates \/ m = "show_dates")
            /\ path_arg' = IF m = "path" THEN <<a>> ELSE path_arg
            /\ err' = IF m = "unknown" THEN Append(err, Line("Unknown option", <<>>, <<a>>)) ELSE err
            /\ out' = IF m \in {"help", "unknown"} THEN Append(out, Line("USAGE", <<>>, <<>>))
                      ELSE IF m = "version" THEN Append(out, Line("VERSION", <<>>, <<>>))
                      ELSE out
            /\ exit_code' = IF next = "exit" THEN 0 ELSE exit_code
            /\ pc' = next
            /\ argc' = IF next = "args" THEN argc + 1 ELSE 0
            /\ flagC' = (flagC \/ a \in {Arg(1, "C"), Arg(2, "confirm")})
    /\ UNCHANGED << fs, fault, dirs, idx, updated_count, fs0, decided, stamped, prev >>

\* let root = PathBuf::from(path_arg.unwrap_or_else(|| ".".to_string()));
\* if !root.exists() { ...; std::process::exit(2) }
CheckRoot ==
    /\ pc = "root"
    /\ path_arg' = <<>>
    /\ IF PathExists(fs, fault, RootPath)
       THEN /\ pc' = "walk"
            /\ UNCHANGED << err, exit_code >>
       ELSE /\ pc' = "exit"
            /\ err' = Append(err, Line("Path does not exist", RootPath, <<>>))
            /\ exit_code' = 2
    /\ UNCHANGED << fs, fault, argc, confirm, show_dates, dirs, idx,
                    updated_count, out, fs0, flagC, decided, stamped, prev >>

\* collect directories and sort deeper paths first
Walk ==
    /\ pc = "walk"
    /\ \E rev \in BOOLEAN :
        LET items == WalkDir(fs, fault, <<RootPath>>, rev)
            found == SelectSeq(items, LAMBDA e : e.ok /\ is_dir(e))
            bad == SelectSeq(items, LAMBDA e : ~e.ok)
        IN  /\ dirs' = sort_by_key([k \in 1..Len(found) |-> found[k].path])
            /\ err' = err \o [k \in 1..Len(bad) |-> Line("skipped (walk error)", bad[k].path, <<>>)]
    /\ pc' = "loop"
    /\ idx' = 1
    /\ UNCHANGED << fs, fault, argc, confirm, show_dates, path_arg, updated_count,
                    out, exit_code, fs0, flagC, decided, stamped, prev >>

\* one turn of `for entry in dirs`
ProcessDir ==
    /\ pc = "loop"
    /\ idx <= Len(dirs)
    /\ LET r == LoopBody(fs, fault, dirs[idx], confirm, show_dates)
       IN  /\ fs' = r.fs
           /\ out' = out \o r.out
           /\ err' = err \o r.err
           /\ updated_count' = updated_count + r.inc
           /\ decided' = decided \o r.decided
           /\ stamped' = stamped \o r.stamped
    /\ idx' = idx + 1
    /\ UNCHANGED << fault, pc, argc, confirm, show_dates, path_arg, dirs,
                    exit_code, fs0, flagC, prev >>

\* the summary, and Ok(())
Finish ==
    /\ pc = "loop"
    /\ idx > Len(dirs)
    /\ out' = IF updated_count = 0
              THEN Append(out, Line("No folder timestamps needed updating.", <<>>, <<>>))
              ELSE IF ~confirm
              THEN Append(out, Line("Note: this was a dry run.", <<>>, <<>>))
              ELSE out
    /\ exit_code' = 0
    /\ pc' = "done"
    /\ UNCHANGED << fs, fault, argc, confirm, show_dates, path_arg, dirs, idx,
                    updated_count, err, fs0, flagC, decided, stamped, prev >>

\* the tool is started again on the tree the first invocation left
Restart ==
    /\ pc \in {"done", "exit"}
    /\ ~prev.ran
    /\ prev' = [ran |-> TRUE, pc |-> pc, confirm |-> confirm, out |-> out,
                updated_count |-> updated_count, exit_code |-> exit_code,
                fs0 |-> fs0, flagC |-> flagC]
    /\ fs0' = fs
    /\ pc' = "args" /\ argc' = 0 /\ confirm' = FALSE /\ show_dates' = FALSE
    /\ path_arg' = <<>> /\ dirs' = <<>> /\ idx' = 1 /\ updated_count' = 0
    /\ out' = <<>> /\ err' = <<>> /\ exit_code' = -1
    /\ flagC' = FALSE /\ decided' = <<>> /\ stamped' = <<>>
    /\ UNCHANGED << fs, fault >>

Next == ParseArg \/ CheckRoot \/ Walk \/ ProcessDir \/ Finish

Spec == Init /\ [][Next]_vars

SessionInit == Init /\ fault = NoFault

SessionNext == Next \/ Restart

SessionSpec == SessionInit /\ [][SessionNext]_vars

\* ------------------------------------------------------------- properties

Dirs(f) == {p \in Paths : f[p].kind = "dir"}

FileChildren(f, p) == {q \in Paths : IsChild(f, p, q) /\ f[q].kind = "file"}

DirChildren(f, p) == {q \in Paths : IsChild(f, p, q) /\ f[q].kind = "dir"}

AnyChildren(f, p) == {q \in Paths : IsChild(f, p, q)}

MaxMtime(f, S) == CHOOSE m \in {f[q].mtime : q \in S} : \A q \in S : f[q].mtime <= m

Within(a, b) == a - b <= one_sec /\ b - a <= one_sec

Lines(s, texts) == {k \in 1..Len(s) : s[k].text \in texts}

\* the directories a run printed as updated, or as would update
Updated(o) == {o[k].path : k \in Lines(o, {"updated"})}

WouldUpdate(o) == {o[k].path : k \in Lines(o, {"would update"})}

Reported(o) == Updated(o) \cup WouldUpdate(o)

SkipTexts ==
    {"skipped (mtime read failed)", "skipped (child scan failed)", "skipped (set mtime failed)"}

Skipped(e) == {e[k].path : k \in Lines(e, SkipTexts)}

\* C1: after an apply run without I/O failures, every directory with at least
\* one immediate file child has an mtime within one second of the newest of
\* its immediate file children, whatever the mtimes of its subdirectories.
C1_FileChildrenDecide ==
    (pc = "done" /\ flagC /\ fault = NoFault) =>
        \A D \in Dirs(fs) :
            FileChildren(fs, D) # {} =>
                Within(fs[D].mtime, MaxMtime(fs, FileChildren(fs, D)))

\* an apply run updated a directory to its newest file although it holds a
\* subdirectory that is newer still
C1_Witness ==
    /\ pc = "done" /\ flagC /\ fault = NoFault
    /\ \E D \in Dirs(fs) :
        /\ FileChildren(fs, D) # {} /\ DirChildren(fs, D) # {}
        /\ MaxMtime(fs, DirChildren(fs, D)) > MaxMtime(fs, FileChildren(fs, D)) + one_sec
        /\ fs[D].mtime # fs0[D].mtime
        /\ D \in Updated(out)

\* root/sub/file.txt with file = T, sub = T - 10d, root = T - 20d
ScenarioTree ==
    [p \in Paths |->
        IF p = <<"root">> THEN [kind |-> "dir", mtime |-> 0]
        ELSE IF p = <<"root", "a">> THEN [kind |-> "dir", mtime |-> 1]
        ELSE IF p = <<"root", "a", "c">> THEN [kind |-> "file", mtime |-> 3]
        ELSE Absent]

\* C2: every directory comes after all of its immediate subdirectories in the
\* processing order, and after an apply run without I/O failures a directory
\* with subdirectories but no files is within one second of the newest of its
\* subdirectories as they are at the end of the run; in root/sub/file.txt
\* both sub and root end with the file's mtime.
C2_SubdirPropagation ==
    /\ \A j, k \in 1..Len(dirs) : dirs[k] = Parent(dirs[j]) => j < k
    /\ (pc = "done" /\ flagC /\ fault = NoFault) =>
        /\ \A D \in Dirs(fs) :
            (FileChildren(fs, D) = {} /\ DirChildren(fs, D) # {}) =>
                Within(fs[D].mtime, MaxMtime(fs, DirChildren(fs, D)))
        /\ fs0 = ScenarioTree =>
            fs[<<"root", "a">>].mtime = 3 /\ fs[<<"root">>].mtime = 3

\* the apply run of the scenario has ended, with root updated through sub
C2_Witness ==
    /\ pc = "done" /\ flagC /\ fault = NoFault
    /\ fs0 = ScenarioTree
    /\ Updated(out) = {<<"root">>, <<"root", "a">>}
    /\ fs[<<"root">>].mtime = 3

\* C3: an apply run that follows a completed apply run at once calls
\* set_folder_mtime for no directory, changes nothing, reports nothing as
\* updated and counts zero: every directory with a target is within tolerance.
C3_Idempotent ==
    (prev.ran /\ prev.pc = "done" /\ prev.flagC /\ flagC) =>
        /\ updated_count = 0
        /\ stamped = <<>>
        /\ fs = fs0
        /\ Reported(out) = {}
        /\ \A k \in 1..Len(decided) : Within(decided[k].latest, decided[k].dir_mtime)

\* the second apply run has ended after a first one that updated two directories
C3_Witness ==
    /\ prev.ran /\ prev.pc = "done" /\ prev.flagC /\ prev.updated_count >= 2
    /\ pc = "done" /\ flagC
    /\ Len(decided) >= 2

\* C4: a run without the confirm flag never calls set_folder_mtime and leaves
\* every mtime as it was; the mode the traversal runs in is the one the flags
\* gave, from the first directory to the last.
C4_DryRunNoEffect ==
    /\ ~flagC => (fs = fs0 /\ stamped = <<>> /\ Updated(out) = {})
    /\ pc \in {"root", "walk", "loop", "done"} => confirm = flagC

\* a dry run has ended that reported two directories as would update
C4_Witness ==
    /\ pc = "done" /\ ~flagC
    /\ Cardinality(WouldUpdate(out)) >= 2
    /\ updated_count >= 2
    /\ fs = fs0

\* C5: when an unknown flag is read the program reports it, exits with a
\* non-zero status, has walked nothing and has changed no mtime.
C5_UnknownFlagFails ==
    (Lines(err, {"Unknown option"}) # {}) =>
        /\ pc = "exit"
        /\ exit_code # 0
        /\ dirs = <<>>
        /\ stamped = <<>>
        /\ fs = fs0

\* C6 as stated: a directory with a target is updated or reported as would
\* update exactly when target and current mtime differ by more than one
\* second, and updated_count counts exactly those.
C6_ToleranceOriginal ==
    /\ \A k \in 1..Len(decided) :
        (decided[k].path \in Reported(out)) <=>
            ~Within(decided[k].latest, decided[k].dir_mtime)
    /\ updated_count =
        Cardinality({k \in 1..Len(decided) : ~Within(decided[k].latest, decided[k].dir_mtime)})

Changing(k) ==
    /\ ~Within(decided[k].latest, decided[k].dir_mtime)
    /\ confirm => ~Fails(fault, decided[k].path, "set_mtime")

\* C6 amended: ... exactly when they differ by more than one second and, in
\* apply mode, the write of the new mtime succeeds; a directory updated in
\* apply mode then carries its target; a difference of exactly one second, in
\* either direction, causes no update, no report and no count.
C6_ToleranceAmended ==
    /\ \A k \in 1..Len(decided) :
        /\ (decided[k].path \in Reported(out)) <=> Changing(k)
        /\ (confirm /\ Changing(k)) => fs[decided[k].path].mtime = decided[k].latest
        /\ ~Changing(k) => fs[decided[k].path].mtime = decided[k].dir_mtime
    /\ updated_count = Cardinality({k \in 1..Len(decided) : Changing(k)})

\* one directory exactly one second from its target was left alone, and one
\* whose target is more than a second older than its mtime was updated
C6_Witness ==
    /\ pc = "done" /\ confirm
    /\ \E j, k \in 1..Len(decided) :
        /\ decided[j].latest = decided[j].dir_mtime + one_sec
        /\ decided[j].path \notin Reported(out)
        /\ decided[k].latest + one_sec < decided[k].dir_mtime
        /\ decided[k].path \in Updated(out)

\* C7: a directory without immediate children keeps its mtime in every run,
\* in either mode, with or without I/O failures, is never reported, and adds
\* nothing to updated_count.
C7_EmptyUntouched ==
    /\ \A D \in Dirs(fs0) :
        AnyChildren(fs0, D) = {} =>
            /\ fs[D] = fs0[D]
            /\ D \notin Reported(out)
            /\ \A k \in 1..Len(stamped) : stamped[k].path # D
    /\ updated_count = Cardinality(Reported(out))

\* an apply run went past an empty directory whose parent it then updated
C7_Witness ==
    /\ pc = "done" /\ flagC
    /\ \E D \in Dirs(fs0) :
        /\ AnyChildren(fs0, D) = {}
        /\ \E k \in 1..Len(dirs) : dirs[k] = D
        /\ D # RootPath
        /\ Parent(D) \in Updated(out)

\* the target of D as find_latest_mtime computes it on tree f
InSync(f, flt, D) ==
    LET t == find_latest_mtime(f, flt, D)
    IN  t.tag = "Some" => Within(f[D].mtime, t.t)

\* C8: a directory whose mtime read, child scan or mtime write fails keeps
\* its mtime and is not counted; every directory of the sequence is still
\* processed (in apply mode each one not skipped ends in sync with its
\* children, in dry-run mode each one out of sync is reported); the loop
\* runs to the end of the sequence, where the run ends with the summary and
\* exit status 0; past the arguments only a root that does not exist ends
\* it early, with a non-zero status and nothing written.
C8_FailureIsolation ==
    /\ \A D \in Skipped(err) : fs[D] = fs0[D] /\ D \notin Reported(out)
    /\ updated_count = Cardinality(Reported(out))
    /\ pc = "loop" => idx \in 1..(Len(dirs) + 1)
    /\ pc = "done" =>
        /\ exit_code = 0
        /\ idx = Len(dirs) + 1
        /\ Lines(out, {"No folder timestamps needed updating."}) # {} <=> updated_count = 0
        /\ \A k \in 1..Len(dirs) :
            dirs[k] \notin Skipped(err) =>
                IF confirm THEN InSync(fs, fault, dirs[k])
                ELSE (dirs[k] \in WouldUpdate(out)) <=> ~InSync(fs, fault, dirs[k])
    /\ pc = "exit" =>
        /\ stamped = <<>> /\ dirs = <<>> /\ fs = fs0
        /\ \/ exit_code = 2 /\ ~PathExists(fs, fault, RootPath)
           \/ exit_code = 0 /\ Lines(out, {"USAGE", "VERSION"}) # {}
    /\ pc \in {"walk", "loop", "done"} => PathExists(fs, fault, RootPath)
    /\ exit_code # 0 => (pc = "exit" \/ exit_code = -1)

\* an apply run skipped a directory on a failure and updated one after it
C8_Witness ==
    /\ pc = "done" /\ confirm /\ exit_code = 0
    /\ \E j, k \in 1..Len(dirs) :
        /\ j < k
        /\ dirs[j] \in Skipped(err)
        /\ dirs[k] \in Updated(out)
        /\ fs[dirs[k]].mtime # fs0[dirs[k]].mtime

\* C9: the directories a dry run reports as would update, and its count, are
\* those an apply run from the same tree updates.
C9_DryRunPredictsApply ==
    (prev.ran /\ prev.pc = "done" /\ ~prev.flagC /\ pc = "done" /\ flagC) =>
        /\ WouldUpdate(prev.out) = Updated(out)
        /\ prev.updated_count = updated_count

\* the tree with entry q removed
Without(f, q) == [f EXCEPT ![q] = Absent]

\* C10: when the metadata of one child of D cannot be read, no error is
\* reported for D's scan and after an apply run D is in sync with its
\* remaining children.
C10_UnreadableChildSkipped ==
    (pc = "done" /\ flagC /\ fault.kind = "metadata" /\ fault.path # RootPath) =>
        LET D == Parent(fault.path)
        IN  /\ \A k \in Lines(err, {"skipped (child scan failed)"}) : err[k].path # D
            /\ InSync(Without(fs, fault.path), NoFault, D)

====
